---- MODULE Spec2Model ----
(***************************************************************************)
(* otel-collector-proxy: the in-memory rate limiter (core/rate_limit.py),  *)
(* the POST /api/v1/traces handler with its dependency resolution and      *)
(* forwarding (main.py), the production masking of responses               *)
(* (core/response.py) and the domain-error handler                         *)
(* (core/exception_handlers.py).                                           *)
(*                                                                         *)
(* Specifications: SpecLimiter, SpecPair, SpecNoCleanup, SpecCleanup,       *)
(* SpecStarts and SpecBurst are the limiter alone, each with the history   *)
(* its properties speak of; Spec is the traces endpoint over the limiter,  *)
(* one request at a time; SpecFlights is several requests in flight over   *)
(* the limiter; SpecHeaders is the copy of the request headers to the      *)
(* upstream call; SpecRequestId is the request-id middleware               *)
(* (core/middleware/request_id.py, core/middleware/configure.py).          *)
(*                                                                         *)
(* Time is the monotonic clock in whole ticks.  Response bodies are        *)
(* strings, request bodies are sequences of bytes.                         *)
(***************************************************************************)
EXTENDS Integers, Sequences, FiniteSets, TLC

VARIABLES
    clock,          \* the value time.monotonic() returns now
    storage,        \* RateLimiter.storage: key -> RateLimitItem (present keys only)
    last_cleanup,   \* RateLimiter._last_cleanup
    winLog,         \* history: per key, the results of the calls of its current window
    winFirst,       \* history: per key, the time of the call that began its current window
    earlyReset,     \* history: a window was restarted within window_seconds of its first call
    lastCall,       \* history: the is_allowed call just made (NoCall after a tick)
    env,            \* settings.ENVIRONMENT
    peer,           \* request.client of the connection the requests arrive on
    task,           \* per request-handling task: position, request, response, history
    twin,           \* a second RateLimiter, given the same calls for one key as the first
    exchange,       \* one request on its way through the request-id middleware, and the ids issued
    starts,         \* history: per key, the window_start of its entry and the one before it
    flight,         \* the requests in flight together: where each one is in traces
    metrics,        \* the metrics middleware: the in-progress gauge and each request's pass through it
    relay,          \* the header lines of one inbound request and the headers handed to client.post
    admissions      \* history: per key, the admitted calls at each of the latest clock readings

vars == <<clock, storage, last_cleanup, winLog, winFirst, earlyReset, lastCall, env, peer, task,
          twin, relay, exchange, starts, flight, metrics, admissions>>

historyVars == <<winLog, winFirst, earlyReset, lastCall>>

(***************************************************************************)
(* Bounds of the model.                                                    *)
(***************************************************************************)
\* requests_limit of the limiter under check (settings.RATE_LIMIT_REQUESTS scaled down)
requests_limit == 2
\* window_seconds of the limiter under check (settings.RATE_LIMIT_WINDOW scaled down)
window_seconds == 1
\* the clock of the limiter specification stops here
MaxTime == 13

\* the second clock reading of one is_allowed call (RateLimitItem's default
\* start_time) is this much later than the first
Skews == {0, 1}

LimiterKeys == {"1.2.3.4", "5.6.7.8"}

NoCall == [key |-> "none"]

\* RateLimiter(requests_limit, window_seconds) as constructed at clock 0, and no
\* results of a call made of both limiters yet
NoTwin == [storage |-> [k \in {} |-> [count |-> 0, start_time |-> 0]], last_cleanup |-> 0,
           results |-> <<>>]

\* no call admitted at any of the clock readings now - window_seconds .. now
NoAdmissions == [k \in LimiterKeys |-> [i \in 1..(window_seconds + 1) |-> 0]]

(***************************************************************************)
(* Absent values (None), and a task that handles no request.               *)
(***************************************************************************)
NoClient == "<no client>"
NoMediaType == "<none>"
NoReceiver == "<none>"
NoHeaders == [n \in {} |-> ""]
NoDetail == "<none>"
NoRequest == [client |-> NoClient, headers |-> NoHeaders, body |-> <<>>]
NoResponse == [cls |-> "none", status_code |-> 0, body |-> "", media_type |-> NoMediaType,
               raw_headers |-> NoHeaders]
NoWire == [status |-> 0, body |-> "", headers |-> NoHeaders]
NoReply == [kind |-> "none", status |-> 0, content |-> "", content_type |-> NoMediaType]

NoRelay == [lines |-> <<>>, posted |-> FALSE, headers |-> NoHeaders]

NoId == "<none>"
NoExchange == [pc |-> "idle", supplied |-> NoId, raises |-> FALSE, request_id |-> NoId,
               request_id_ctx |-> NoId, issued |-> 0, status |-> 0, headers |-> <<>>]

NoStarts == [k \in LimiterKeys |-> [prev |-> 0, cur |-> 0, absent |-> TRUE, recreated |-> FALSE]]

\* the requests that are in flight together
Flights == {"r1", "r2", "r3"}
NoFlight == [pc |-> "idle", key |-> NoClient]

\* the requests that pass through the metrics middleware together
Calls == {"m1", "m2"}
NoStatus == "<none>"
NoCallOfApp == [pc |-> "idle", status_code |-> NoStatus, sent |-> NoStatus,
                background |-> FALSE, responses |-> 0, label |-> NoStatus]
NoMetrics == [in_progress |-> 0, call |-> [c \in Calls |-> NoCallOfApp]]

Tasks == {"t1"}

IdleTask ==
    [pc         |-> "idle",       \* where the task stands
     req        |-> NoRequest,    \* the request it handles
     receiver   |-> NoReceiver,   \* data_receiver
     resp       |-> NoResponse,   \* the response object the handler or error handler returned
     sent       |-> NoWire,       \* what was sent to the caller
     background |-> FALSE,        \* background_tasks holds forward_traces
     outcome    |-> "none",       \* history: the statement that ended the handling
     allowCalls |-> 0,            \* history: is_allowed calls made for the request
     allowed    |-> FALSE,        \* history: the result of is_allowed
     ordinal    |-> 0,            \* history: the request's place in its key's window
     posts      |-> 0,            \* history: client.post calls made for the request
     postedTo   |-> NoReceiver,   \* history: the receiver posted to
     forwarded  |-> [body |-> <<>>, headers |-> NoHeaders],  \* history: what was posted
     postAfterSend  |-> FALSE,    \* history: the post was issued after the response was sent
     reply      |-> NoReply,      \* history: how the upstream call ended
     replyBeforeSend |-> FALSE,   \* history: the upstream call ended before the response was sent
     uncaught   |-> FALSE,        \* history: an exception left the application
     bgRaised   |-> FALSE,        \* history: an exception left the background task
     logged     |-> FALSE,        \* history: forward_traces logged the failure of the post
     bodyRead   |-> FALSE]        \* history: request.body() was awaited

(***************************************************************************)
(* core/rate_limit.py                                                      *)
(***************************************************************************)
\* RateLimitItem(): count 0, start_time read from the clock at creation
RateLimitItem(t) == [count |-> 0, start_time |-> t]

CleanupDueAlways(lc, now) == TRUE

\* _maybe_cleanup: the early return
CleanupDue(lc, now) == ~(now - lc < 10 * window_seconds)

StaleBeyondCleanupPeriod(st, now) ==
    {k \in DOMAIN st : st[k].start_time < now - 10 * window_seconds}

StaleAtCutoff(st, now) == {k \in DOMAIN st : st[k].start_time <= now - 2 * window_seconds}

\* _maybe_cleanup: the entries the sweep deletes
Stale(st, now) == {k \in DOMAIN st : st[k].start_time < now - 2 * window_seconds}

\* _maybe_cleanup(now): the storage and _last_cleanup it leaves
MaybeCleanup(st, lc, now) ==
    IF CleanupDue(lc, now)
    THEN [storage |-> [k \in (DOMAIN st) \ Stale(st, now) |-> st[k]], last_cleanup |-> now]
    ELSE [storage |-> st, last_cleanup |-> lc]

WindowExpiredAtBoundary(item, now) == now - item.start_time >= window_seconds

\* is_allowed: the window has expired
WindowExpired(item, now) == now - item.start_time > window_seconds

ResetItemStoresElapsed(item, now) ==
    [item EXCEPT !.start_time = now - item.start_time, !.count = 0]

ResetItemKeepsCount(item, now) == [item EXCEPT !.start_time = now]

\* is_allowed: the item after the expiry branch
ResetItem(item, now) == [item EXCEPT !.start_time = now, !.count = 0]

OverLimitOffByOne(item) == item.count > requests_limit

OverLimitNever(item) == FALSE

\* is_allowed: the limit is reached
OverLimit(item) == item.count >= requests_limit

\* is_allowed(key) at clock reading now; skew is how much later the clock reads
\* when a missing entry is created.  The result, the storage, _last_cleanup and
\* the clock it leaves.
IsAllowed(st, lc, now, key, skew) ==
    LET c       == MaybeCleanup(st, lc, now)
        created == key \notin DOMAIN c.storage
        item0   == IF created THEN RateLimitItem(now + skew) ELSE c.storage[key]
        expired == WindowExpired(item0, now)
        item1   == IF expired THEN ResetItem(item0, now) ELSE item0
        allowed == ~OverLimit(item1)
        item2   == IF allowed THEN [item1 EXCEPT !.count = @ + 1] ELSE item1
    IN  [allowed      |-> allowed,
         storage      |-> [k \in (DOMAIN c.storage) \cup {key} |->
                              IF k = key THEN item2 ELSE c.storage[k]],
         last_cleanup |-> c.last_cleanup,
         clock        |-> IF created THEN now + skew ELSE now,
         newWindow    |-> created \/ expired,
         swept        |-> CleanupDue(lc, now)]

(***************************************************************************)
(* History of the limiter's calls, kept beside the limiter's state.        *)
(***************************************************************************)
\* the calls logged per window: one more than the limit and one to spare
LogCap == requests_limit + 2

LogAfter(k, now, r) ==
    IF r.newWindow THEN <<r.allowed>>
    ELSE IF Len(winLog[k]) < LogCap THEN Append(winLog[k], r.allowed)
    ELSE winLog[k]

WindowHistory(k, now, r) ==
    /\ winLog' = [winLog EXCEPT ![k] = LogAfter(k, now, r)]
    /\ winFirst' = [winFirst EXCEPT ![k] = IF r.newWindow THEN now ELSE @]
    /\ earlyReset' = (earlyReset \/ (r.newWindow /\ winLog[k] # <<>>
                                     /\ now - winFirst[k] <= window_seconds))

CallRecord(k, now, r) ==
    [key       |-> k,
     now       |-> now,
     allowed   |-> r.allowed,
     had       |-> k \in DOMAIN storage,
     prev      |-> IF k \in DOMAIN storage THEN storage[k] ELSE RateLimitItem(0),
     item      |-> r.storage[k],
     swept     |-> r.swept,
     clock     |-> r.clock,
     newWindow |-> r.newWindow,
     early     |-> winLog[k] # <<>> /\ now - winFirst[k] <= window_seconds,
     deniedBefore |-> \E i \in 1..Len(winLog[k]) : ~winLog[k][i]]

(***************************************************************************)
(* The limiter alone: calls of is_allowed for any key at any time.         *)
(***************************************************************************)
InitLimiter ==
    /\ clock = 0
    /\ storage = [k \in {} |-> RateLimitItem(0)]
    /\ last_cleanup = 0
    /\ winLog = [k \in LimiterKeys \cup {"unknown"} |-> <<>>]
    /\ winFirst = [k \in LimiterKeys \cup {"unknown"} |-> 0]
    /\ earlyReset = FALSE
    /\ lastCall = NoCall
    /\ env = "TESTING"
    /\ peer = NoClient
    /\ task = [t \in Tasks |-> IdleTask]
    /\ twin = NoTwin
    /\ admissions = NoAdmissions
    /\ relay = NoRelay
    /\ metrics = NoMetrics
    /\ flight = [f \in Flights |-> NoFlight]
    /\ starts = NoStarts
    /\ exchange = NoExchange

\* one call limiter.is_allowed(k)
Call(k, skew) ==
    LET r == IsAllowed(storage, last_cleanup, clock, k, skew)
    IN  /\ r.clock <= MaxTime
        /\ storage' = r.storage
        /\ last_cleanup' = r.last_cleanup
        /\ clock' = r.clock
        /\ WindowHistory(k, clock, r)
        /\ lastCall' = CallRecord(k, clock, r)
        /\ UNCHANGED <<env, peer, task, twin, admissions, relay, exchange, starts, flight, metrics>>

\* the monotonic clock advances
TickLimiter ==
    /\ clock < MaxTime
    /\ clock' = clock + 1
    /\ lastCall' = NoCall
    /\ UNCHANGED <<storage, last_cleanup, winLog, winFirst, earlyReset, env, peer, task, twin, admissions, relay, exchange, starts, flight, metrics>>

NextLimiter ==
    \/ \E k \in LimiterKeys, skew \in Skews : Call(k, skew)
    \/ TickLimiter

SpecLimiter == InitLimiter /\ [][NextLimiter]_vars

(***************************************************************************)
(* C1: a key that starts a window is admitted by its first requests_limit  *)
(* calls made within window_seconds of the first, and the call after them  *)
(* in the same window is denied.                                           *)
(***************************************************************************)
C1_LimitCallsAdmitted ==
    /\ ~earlyReset
    /\ \A k \in LimiterKeys : \A i \in 1..Len(winLog[k]) :
           winLog[k][i] = (i <= requests_limit)

C1_Witness ==
    \E k \in LimiterKeys :
        /\ Len(winLog[k]) = requests_limit + 1
        /\ ~winLog[k][requests_limit + 1]
        /\ \A i \in 1..requests_limit : winLog[k][i]
        /\ clock = winFirst[k] + window_seconds

(***************************************************************************)
(* C2: when more than window_seconds have passed since the window_start of *)
(* a key that has an entry, the next is_allowed call for it returns True,  *)
(* whatever its count was, and leaves the entry with a window_start read   *)
(* from the clock during that call and a count of one.                     *)
(***************************************************************************)
C2_ExpiredWindowResets ==
    (lastCall # NoCall /\ lastCall.had
        /\ lastCall.now - lastCall.prev.start_time > window_seconds)
    => /\ lastCall.allowed
       /\ lastCall.item.count = 1
       /\ lastCall.now <= lastCall.item.start_time
       /\ lastCall.item.start_time <= lastCall.clock

C2_Witness ==
    /\ lastCall # NoCall /\ lastCall.had
    /\ lastCall.now - lastCall.prev.start_time > window_seconds
    /\ lastCall.prev.count = requests_limit
    /\ ~lastCall.swept
    /\ lastCall.allowed
    /\ lastCall.item.start_time = lastCall.now

(***************************************************************************)
(* C17: once a call for a key was denied, every later call for that key    *)
(* that is made before the key's window resets (the entry is neither       *)
(* re-created nor restarted by the call, or the call comes within          *)
(* window_seconds of the window's first call) is denied as well, whatever  *)
(* calls for other keys came in between.                                   *)
(***************************************************************************)
C17_AdmissionMonotonic ==
    (lastCall # NoCall /\ lastCall.deniedBefore
        /\ (~lastCall.newWindow \/ lastCall.early))
    => ~lastCall.allowed

C17_Witness ==
    /\ lastCall # NoCall
    /\ lastCall.deniedBefore
    /\ ~lastCall.newWindow
    /\ ~lastCall.allowed
    /\ lastCall.early
    /\ lastCall.now = winFirst[lastCall.key] + window_seconds
    /\ \E j \in LimiterKeys \ {lastCall.key} :
           /\ winLog[j] # <<>>
           /\ winFirst[j] = lastCall.now

(***************************************************************************)
(* C24: in every state of the limiter the count of every stored entry is   *)
(* between 0 and requests_limit.                                           *)
(***************************************************************************)
C24_CountWithinLimit ==
    \A k \in DOMAIN storage :
        /\ 0 <= storage[k].count
        /\ storage[k].count <= requests_limit

C24_Witness ==
    /\ lastCall # NoCall
    /\ ~lastCall.allowed
    /\ storage[lastCall.key].count = requests_limit
    /\ \E j \in DOMAIN storage : storage[j].count < requests_limit

(***************************************************************************)
(* The limiter with the window_start values of each key followed over the  *)
(* whole run, across the deletion of the key's entry by a sweep.           *)
(***************************************************************************)
\* the history of key j after a call whose result is r
StartsAfter(j, r) ==
    IF j \in DOMAIN r.storage
    THEN [prev      |-> starts[j].cur,
          cur       |-> r.storage[j].start_time,
          absent    |-> FALSE,
          recreated |-> IF starts[j].absent THEN starts[j].cur > 0
                        ELSE starts[j].recreated /\ j \in DOMAIN storage]
    ELSE [starts[j] EXCEPT !.absent = TRUE]

\* one call limiter.is_allowed(k)
CallStart(k, skew) ==
    LET r == IsAllowed(storage, last_cleanup, clock, k, skew)
    IN  /\ r.clock <= MaxTime
        /\ storage' = r.storage
        /\ last_cleanup' = r.last_cleanup
        /\ clock' = r.clock
        /\ starts' = [j \in LimiterKeys |-> StartsAfter(j, r)]
        /\ UNCHANGED <<historyVars, env, peer, task, twin, admissions, relay, exchange, flight, metrics>>

\* the monotonic clock advances
TickStart ==
    /\ clock < MaxTime
    /\ clock' = clock + 1
    /\ UNCHANGED <<storage, last_cleanup, historyVars, env, peer, task, twin, admissions, relay, exchange, starts, flight, metrics>>

NextStarts ==
    \/ \E k \in LimiterKeys, skew \in Skews : CallStart(k, skew)
    \/ TickStart

SpecStarts == InitLimiter /\ [][NextStarts]_vars

(***************************************************************************)
(* C25: the window_start of a key's entry is never earlier than the        *)
(* window_start the key's entry had before, also when the entry was        *)
(* deleted by a sweep in between and created again.                        *)
(***************************************************************************)
C25_WindowStartMonotonic ==
    \A k \in LimiterKeys :
        /\ starts[k].prev <= starts[k].cur
        /\ k \in DOMAIN storage => storage[k].start_time = starts[k].cur

C25_Witness ==
    \E k \in LimiterKeys :
        /\ k \in DOMAIN storage
        /\ starts[k].recreated
        /\ starts[k].prev > 0
        /\ starts[k].cur > starts[k].prev + 2 * window_seconds
        /\ last_cleanup > starts[k].prev + 2 * window_seconds

(***************************************************************************)
(* Two limiters side by side: two call histories that have the same calls  *)
(* for the key Watched at the same times, and each its own calls for the   *)
(* other keys.                                                             *)
(***************************************************************************)
Watched == "1.2.3.4"

Later(a, b) == IF a > b THEN a ELSE b

\* is_allowed(Watched) of both limiters at the same clock reading
CallBoth(skew) ==
    LET a == IsAllowed(storage, last_cleanup, clock, Watched, skew)
        b == IsAllowed(twin.storage, twin.last_cleanup, clock, Watched, skew)
    IN  /\ Later(a.clock, b.clock) <= MaxTime
        /\ storage' = a.storage
        /\ last_cleanup' = a.last_cleanup
        /\ twin' = [storage |-> b.storage, last_cleanup |-> b.last_cleanup,
                    results |-> <<a.allowed, b.allowed>>]
        /\ clock' = Later(a.clock, b.clock)
        /\ UNCHANGED <<historyVars, env, peer, task, admissions, relay, exchange, starts, flight, metrics>>

\* is_allowed(k) of the first limiter only
CallFirst(k, skew) ==
    LET a == IsAllowed(storage, last_cleanup, clock, k, skew)
    IN  /\ a.clock <= MaxTime
        /\ storage' = a.storage
        /\ last_cleanup' = a.last_cleanup
        /\ clock' = a.clock
        /\ UNCHANGED <<historyVars, env, peer, task, twin, admissions, relay, exchange, starts, flight, metrics>>

\* is_allowed(k) of the second limiter only
CallSecond(k, skew) ==
    LET b == IsAllowed(twin.storage, twin.last_cleanup, clock, k, skew)
    IN  /\ b.clock <= MaxTime
        /\ twin' = [twin EXCEPT !.storage = b.storage, !.last_cleanup = b.last_cleanup]
        /\ clock' = b.clock
        /\ UNCHANGED <<storage, last_cleanup, historyVars, env, peer, task, admissions, relay, exchange, starts, flight, metrics>>

TickPair ==
    /\ clock < MaxTime
    /\ clock' = clock + 1
    /\ UNCHANGED <<storage, last_cleanup, historyVars, env, peer, task, twin, admissions, relay, exchange, starts, flight, metrics>>

NextPair ==
    \/ \E skew \in Skews : CallBoth(skew)
    \/ \E k \in LimiterKeys \ {Watched}, skew \in Skews : CallFirst(k, skew)
    \/ \E k \in LimiterKeys \ {Watched}, skew \in Skews : CallSecond(k, skew)
    \/ TickPair

SpecPair == InitLimiter /\ [][NextPair]_vars

(***************************************************************************)
(* C18: of two call histories that have the same calls for one key at the  *)
(* same times and differ only in their calls for other keys, every call    *)
(* for that key returns the same result in both.                           *)
(***************************************************************************)
C18_KeysDoNotInterfere ==
    twin.results # <<>> => twin.results[1] = twin.results[2]

(***************************************************************************)
(* The limiter beside a limiter whose sweep is disabled, both given the    *)
(* same calls at the same clock readings.                                  *)
(***************************************************************************)
\* is_allowed(key) of a limiter whose _maybe_cleanup always returns early
IsAllowedNoCleanup(st, now, key, skew) == IsAllowed(st, now, now, key, skew)

\* is_allowed(k) of both limiters at the same clock reading
CallWithAndWithout(k, skew) ==
    LET a == IsAllowed(storage, last_cleanup, clock, k, skew)
        b == IsAllowedNoCleanup(twin.storage, clock, k, skew)
    IN  /\ Later(a.clock, b.clock) <= MaxTime
        /\ storage' = a.storage
        /\ last_cleanup' = a.last_cleanup
        /\ twin' = [storage |-> b.storage, last_cleanup |-> twin.last_cleanup,
                    results |-> <<a.allowed, b.allowed>>]
        /\ clock' = Later(a.clock, b.clock)
        /\ UNCHANGED <<historyVars, env, peer, task, admissions, relay, exchange, starts, flight, metrics>>

NextNoCleanup ==
    \/ \E k \in LimiterKeys, skew \in Skews : CallWithAndWithout(k, skew)
    \/ TickPair

SpecNoCleanup == InitLimiter /\ [][NextNoCleanup]_vars

(***************************************************************************)
(* C29: the limiter with the sweep and the limiter without it give the     *)
(* same result to every call of every sequence of calls.                   *)
(***************************************************************************)
C29_CleanupUnobservable ==
    \A i, j \in DOMAIN twin.results : twin.results[i] = twin.results[j]

(***************************************************************************)
(* The limiter and its sweep over a longer time, with the limiter's state  *)
(* before the latest call kept as history.                                 *)
(***************************************************************************)
\* the clock of the sweep specification stops here
MaxTimeCleanup == 20

\* the call is_allowed(k) at the clock reading now, and the limiter it was made of
SweepRecord(k, now, r) ==
    [key          |-> k,
     now          |-> now,
     allowed      |-> r.allowed,
     storage      |-> storage,
     last_cleanup |-> last_cleanup]

\* one call limiter.is_allowed(k)
CallSweep(k, skew) ==
    LET r == IsAllowed(storage, last_cleanup, clock, k, skew)
    IN  /\ r.clock <= MaxTimeCleanup
        /\ storage' = r.storage
        /\ last_cleanup' = r.last_cleanup
        /\ clock' = r.clock
        /\ lastCall' = SweepRecord(k, clock, r)
        /\ UNCHANGED <<winLog, winFirst, earlyReset, env, peer, task, twin, admissions, relay, exchange, starts, flight, metrics>>

TickCleanup ==
    /\ clock < MaxTimeCleanup
    /\ clock' = clock + 1
    /\ lastCall' = NoCall
    /\ UNCHANGED <<storage, last_cleanup, winLog, winFirst, earlyReset, env, peer, task, twin, admissions, relay, exchange, starts, flight, metrics>>

NextCleanup ==
    \/ \E k \in LimiterKeys, skew \in Skews : CallSweep(k, skew)
    \/ TickCleanup

SpecCleanup == InitLimiter /\ [][NextCleanup]_vars

\* no entry and no sweep of the limiter the call was made of is younger than d:
\* so it is when no call was made for the time d before the call
QuietFor(d, call) ==
    /\ \A j \in DOMAIN call.storage : call.storage[j].start_time + d <= call.now
    /\ call.last_cleanup + d <= call.now

\* the entries within 2 x window_seconds of the call's clock reading
Recent(call) ==
    {j \in DOMAIN call.storage : call.now - call.storage[j].start_time <= 2 * window_seconds}

(***************************************************************************)
(* C19: a call never removes an entry whose window_start is within         *)
(* 2 x window_seconds of its clock reading (the entries of the other keys  *)
(* are left as they were); _maybe_cleanup run a second time at the same    *)
(* clock reading changes nothing; and a call for a key without an entry,   *)
(* made when no entry and no sweep is younger than 15 window lengths (as   *)
(* after 15 window lengths without a call), leaves the storage with that   *)
(* key alone.                                                              *)
(***************************************************************************)
C19_SweepKeepsRecentEntries ==
    /\ LET c == MaybeCleanup(storage, last_cleanup, clock)
       IN  MaybeCleanup(c.storage, c.last_cleanup, clock) = c
    /\ lastCall # NoCall
       => /\ \A j \in Recent(lastCall) :
                /\ j \in DOMAIN storage
                /\ j # lastCall.key => storage[j] = lastCall.storage[j]
          /\ (lastCall.key \notin DOMAIN lastCall.storage
                 /\ QuietFor(15 * window_seconds, lastCall))
             => DOMAIN storage = {lastCall.key}

C19_Witness ==
    /\ lastCall # NoCall
    /\ lastCall.now = 15 * window_seconds
    /\ lastCall.key \notin DOMAIN lastCall.storage
    /\ DOMAIN lastCall.storage # {}
    /\ \A j \in DOMAIN lastCall.storage : lastCall.storage[j] = [count |-> 1, start_time |-> 0]
    /\ lastCall.last_cleanup = 0
    /\ DOMAIN storage = {lastCall.key}
    /\ last_cleanup = lastCall.now

(***************************************************************************)
(* The limiter with the admitted calls of the latest window_seconds kept   *)
(* as history: per key, how many calls were admitted at each of the clock  *)
(* readings now - window_seconds .. now.                                   *)
(***************************************************************************)
\* the counts d clock ticks later
Shift(counts, d) ==
    [i \in 1..Len(counts) |-> IF i + d <= Len(counts) THEN counts[i + d] ELSE 0]

\* one more admitted call at the present clock reading
Count(counts) == [counts EXCEPT ![Len(counts)] = @ + 1]

RECURSIVE Sum(_)
Sum(counts) == IF counts = <<>> THEN 0 ELSE counts[1] + Sum(Tail(counts))

\* one call limiter.is_allowed(k)
CallBurst(k, skew) ==
    LET r == IsAllowed(storage, last_cleanup, clock, k, skew)
    IN  /\ r.clock <= MaxTime
        /\ storage' = r.storage
        /\ last_cleanup' = r.last_cleanup
        /\ clock' = r.clock
        /\ admissions' = [j \in LimiterKeys |->
                           Shift(IF j = k /\ r.allowed THEN Count(admissions[j]) ELSE admissions[j],
                                 r.clock - clock)]
        /\ UNCHANGED <<historyVars, env, peer, task, twin, relay, exchange, starts, flight, metrics>>

TickBurst ==
    /\ clock < MaxTime
    /\ clock' = clock + 1
    /\ admissions' = [j \in LimiterKeys |-> Shift(admissions[j], 1)]
    /\ UNCHANGED <<storage, last_cleanup, historyVars, env, peer, task, twin, relay, exchange, starts, flight, metrics>>

NextBurst ==
    \/ \E k \in LimiterKeys, skew \in Skews : CallBurst(k, skew)
    \/ TickBurst

SpecBurst == InitLimiter /\ [][NextBurst]_vars

(***************************************************************************)
(* C20: for every key, the calls admitted at clock readings that lie       *)
(* within one interval of length window_seconds are at most                *)
(* 2 x requests_limit.                                                     *)
(***************************************************************************)
C20_BurstBound ==
    \A k \in LimiterKeys : Sum(admissions[k]) <= 2 * requests_limit

C20_Witness ==
    \E k \in LimiterKeys :
        /\ Sum(admissions[k]) = 2 * requests_limit - 1
        /\ admissions[k][1] = requests_limit - 1
        /\ admissions[k][window_seconds + 1] = requests_limit
        /\ k \in DOMAIN storage
        /\ storage[k] = [count |-> requests_limit, start_time |-> clock]

(***************************************************************************)
(* core/config.py                                                          *)
(***************************************************************************)
Environments == {"TESTING", "DEVELOPMENT", "STAGING", "PRODUCTION"}

is_production_not_development(e) == e # "DEVELOPMENT"

\* Environment.is_production
is_production(e) == e = "PRODUCTION"

\* settings.MAX_BODY_SIZE of the deployment under check (5 MiB scaled down)
MAX_BODY_SIZE == 2

(***************************************************************************)
(* Requests.  Headers are a function from lower-case names (as ASGI gives  *)
(* them) to values; an absent header is a name outside its domain.  The    *)
(* value of content-length is a sequence of characters, the body a         *)
(* sequence of bytes.                                                      *)
(***************************************************************************)
Digits == <<"0", "1", "2", "3", "4", "5", "6", "7", "8", "9">>

\* str(n) for 0 <= n < 100
Decimal(n) == IF n < 10 THEN <<Digits[n + 1]>> ELSE <<Digits[(n \div 10) + 1], Digits[(n % 10) + 1]>>

DigitValue(c) == (CHOOSE i \in 1..10 : Digits[i] = c) - 1

\* int(s) succeeds (signs, blanks and underscores are not among the inputs)
IsDecimal(s) == s # <<>> /\ \A i \in 1..Len(s) : \E d \in 1..10 : Digits[d] = s[i]

RECURSIVE ToInt(_)
\* int(s) for a decimal s
ToInt(s) == IF s = <<>> THEN 0 ELSE 10 * ToInt(SubSeq(s, 1, Len(s) - 1)) + DigitValue(s[Len(s)])

\* b"a" * n
Bytes(n) == [i \in 1..n |-> 97]

Clients == {"1.2.3.4", NoClient}

ContentLengths == {<<"a", "b", "c">>, Decimal(MAX_BODY_SIZE), Decimal(MAX_BODY_SIZE + 1)}
ContentTypes == {"application/json"}
DataTypes == {"opentelemetry-sdk", "faro", "abc"}
Bodies == {Bytes(MAX_BODY_SIZE), Bytes(MAX_BODY_SIZE + 1)}

\* the header sets of the requests: host always, the others present or not
HeaderSets ==
    { [n \in {"host"} \cup cl \cup ct \cup dt |->
          CASE n = "host" -> "proxy.test"
            [] n = "content-length" -> clv
            [] n = "content-type" -> "application/json"
            [] n = "x-data-type" -> dtv] :
        cl \in {{}, {"content-length"}}, clv \in ContentLengths,
        ct \in {{}, {"content-type"}},
        dt \in {{}, {"x-data-type"}}, dtv \in DataTypes }

Requests == [client : Clients, headers : HeaderSets, body : Bodies]

\* the requests that arrive on the connection of one client
RequestsOf(client) == {r \in Requests : r.client = client}

\* request.headers.get(name)
HasHeader(r, n) == n \in DOMAIN r.headers

(***************************************************************************)
(* core/response.py, over starlette's Response.  A response object is its  *)
(* class, status_code, body, media_type and raw_headers.  The              *)
(* content-length header is left out: starlette derives it from the status *)
(* code and the body, which the model keeps.                               *)
(***************************************************************************)
\* Response.init_headers: the content-type written for a media type
ContentTypeOf(media_type) ==
    IF media_type = "text/plain" THEN "text/plain; charset=utf-8" ELSE media_type

\* Response.init_headers(headers): the given headers, then content-type from
\* the media type unless given
InitHeaders(headers, media_type) ==
    IF media_type # NoMediaType /\ "content-type" \notin DOMAIN headers
    THEN [n \in DOMAIN headers \cup {"content-type"} |->
             IF n = "content-type" THEN ContentTypeOf(media_type) ELSE headers[n]]
    ELSE headers

\* MaskedResponse(content=..., status_code=..., media_type=...)
MaskedResponse(content, status_code, media_type) ==
    [cls         |-> "MaskedResponse",
     status_code |-> status_code,
     body        |-> content,
     media_type  |-> media_type,
     raw_headers |-> InitHeaders(NoHeaders, media_type)]

\* SecureJSONResponse(status_code=..., content=..., headers=...): a JSONResponse,
\* media type application/json
SecureJSONResponse(content, status_code, headers) ==
    [cls         |-> "SecureJSONResponse",
     status_code |-> status_code,
     body        |-> content,
     media_type  |-> "application/json",
     raw_headers |-> InitHeaders(headers, "application/json")]

MaskedKeepsStatus(r) ==
    [r EXCEPT !.body = "",
              !.raw_headers = [n \in {"x-m-r"} |-> "1"]]

\* MaskedResponse.__call__: the production branch
Masked(r) ==
    [r EXCEPT !.status_code = 204,
              !.body = "",
              !.raw_headers = [n \in DOMAIN InitHeaders(NoHeaders, r.media_type) \cup {"x-m-r"} |->
                                  IF n = "x-m-r" THEN "1"
                                  ELSE InitHeaders(NoHeaders, r.media_type)[n]]]

\* MaskedResponse.__call__: the response as it is handed to Response.__call__
Render(e, r) == IF is_production(e) THEN Masked(r) ELSE r

\* Response.__call__: what goes on the wire
Wire(r) == [status |-> r.status_code, body |-> r.body, headers |-> r.raw_headers]

\* the server error middleware's answer to an exception no handler takes
InternalServerError ==
    [status |-> 500, body |-> "Internal Server Error",
     headers |-> [n \in {"content-type"} |-> "text/plain; charset=utf-8"]]

(***************************************************************************)
(* core/exceptions.py, core/exception_handlers.py                          *)
(***************************************************************************)
\* BadRequest(code=ErrorCode.UNEXPECTED_DATA_TYPE, error="Unexpected data type")
UnexpectedDataType ==
    [status_code |-> 400,
     error       |-> "Unexpected data type",
     code        |-> "UNEXPECTED_DATA_TYPE",
     detail      |-> NoDetail,
     headers     |-> NoHeaders]

\* OtelProxyError.to_json_error_dict, rendered by JSONResponse
ToJsonErrorDict(exc) ==
    [error |-> exc.error, code |-> exc.code, detail |-> exc.detail]

\* JSONResponse.render: json.dumps(content, separators=(",", ":")) of the one
\* error dict this application raises
JsonRender(content) ==
    IF content = ToJsonErrorDict(UnexpectedDataType)
    THEN "{\"error\":\"Unexpected data type\",\"code\":\"UNEXPECTED_DATA_TYPE\",\"detail\":null}"
    ELSE IF content = [msg |-> "ok"] THEN "{\"msg\":\"ok\"}"
    ELSE "{}"

otel_proxy_error_handler_unprocessable(exc) ==
    SecureJSONResponse(JsonRender(ToJsonErrorDict(exc)), 422, exc.headers)

\* otel_proxy_error_handler(request, exc)
otel_proxy_error_handler(exc) ==
    SecureJSONResponse(JsonRender(ToJsonErrorDict(exc)), exc.status_code, exc.headers)

(***************************************************************************)
(* main.py: dependencies of the traces endpoint                            *)
(***************************************************************************)
\* DataType.OPENTELEMETRY_SDK.value, DataType.FARO.value
OPENTELEMETRY_SDK == "opentelemetry-sdk"
FARO == "faro"

get_otel_client_with_default(r) ==
    IF HasHeader(r, "x-data-type") /\ r.headers["x-data-type"] = FARO THEN "otel_collector_faro"
    ELSE "otel_collector"

\* get_otel_client(otel_receiver, faro_receiver, x_data_type): the receiver, or
\* NoReceiver where it raises BadRequest
get_otel_client(r) ==
    IF ~HasHeader(r, "x-data-type") THEN NoReceiver
    ELSE IF r.headers["x-data-type"] = OPENTELEMETRY_SDK THEN "otel_collector"
    ELSE IF r.headers["x-data-type"] = FARO THEN "otel_collector_faro"
    ELSE NoReceiver

\* traces: client_ip
ClientIp(r) == IF r.client # NoClient THEN r.client ELSE "unknown"

\* traces: the response to a request the limiter denies
RateLimitedResponse(e) ==
    IF is_production(e) THEN MaskedResponse("", 204, NoMediaType)
    ELSE MaskedResponse("Too Many Requests", 429, NoMediaType)

PayloadTooLarge == MaskedResponse("Payload too large", 413, NoMediaType)

MissingContentType == MaskedResponse("Missing Content-Type header", 400, NoMediaType)

\* traces: the response returned in production once the forward is scheduled
Accepted == MaskedResponse("", 204, NoMediaType)

UseBackgroundNever(e) == FALSE

\* traces: forwarding is handed to the background tasks
UseBackground(e) == is_production(e)

\* traces: forward_headers
ForwardHeaders(r) ==
    [n \in (DOMAIN r.headers) \ {"host", "content-length"} |-> r.headers[n]]

(***************************************************************************)
(* main.py: forward_traces.  The upstream answers, or client.post raises   *)
(* an httpx.RequestError, or it raises something else.                     *)
(***************************************************************************)
UpstreamReplies ==
    { [kind |-> "response", status |-> 200, content |-> "{\"status\":\"ok\"}",
       content_type |-> "application/json"],
      [kind |-> "response", status |-> 201, content |-> "Created",
       content_type |-> "text/plain"],
      [kind |-> "response", status |-> 500, content |-> "", content_type |-> NoMediaType],
      [kind |-> "RequestError", status |-> 0, content |-> "", content_type |-> NoMediaType],
      [kind |-> "OtherError", status |-> 0, content |-> "", content_type |-> NoMediaType] }

ForwardResultUnreachableAsAccepted(o) ==
    IF o.kind = "response" THEN MaskedResponse(o.content, o.status, o.content_type)
    ELSE MaskedResponse("", 204, NoMediaType)

\* forward_traces: what it returns for an upstream answer or a RequestError
ForwardResult(o) ==
    IF o.kind = "response" THEN MaskedResponse(o.content, o.status, o.content_type)
    ELSE MaskedResponse("Failed to forward traces", 502, NoMediaType)

ForwardRaisesEveryFailure(o) == o.kind # "response"

\* forward_traces: the exception is not caught
ForwardRaises(o) == o.kind = "OtherError"

\* forward_traces: the except branch logs "Failed to forward traces to collector"
ForwardLogsError(o) == o.kind = "RequestError"

(***************************************************************************)
(* The headers of one request, from the header lines the server hands the  *)
(* application (names in lower case, a name possibly on several lines) to  *)
(* the headers argument of client.post.                                    *)
(***************************************************************************)
\* the most header lines a request of the header specification has
MaxHeaderLines == 3

HeaderLines ==
    { <<"host", "proxy.test">>, <<"content-length", "2">>,
      <<"content-type", "application/json">>, <<"x-data-type", "faro">>,
      <<"x-forwarded-for", "10.0.0.1">>, <<"x-forwarded-for", "10.0.0.2">> }

\* the requests' header lines: up to MaxHeaderLines lines, in any order
HeaderLineLists == UNION { [1..n -> HeaderLines] : n \in 0..MaxHeaderLines }

\* Headers.keys()
HeaderKeys(lines) == {lines[i][1] : i \in 1..Len(lines)}

\* Headers.__getitem__: the value of the first line of that name
HeaderGet(lines, name) ==
    lines[CHOOSE i \in 1..Len(lines) :
              /\ lines[i][1] = name
              /\ \A j \in 1..(i - 1) : lines[j][1] # name][2]

\* dict(request.headers)
HeadersDict(lines) == [n \in HeaderKeys(lines) |-> HeaderGet(lines, n)]

\* traces up to the call of forward_traces, for the request's headers
RelayHeaders ==
    /\ ~relay.posted
    /\ relay' = [relay EXCEPT !.posted = TRUE,
                              !.headers = ForwardHeaders([headers |-> HeadersDict(relay.lines)])]
    /\ UNCHANGED <<clock, storage, last_cleanup, historyVars, env, peer, task, twin, admissions, exchange, starts, flight, metrics>>

\* the next request arrives
NextRequest ==
    /\ relay.posted
    /\ \E lines \in HeaderLineLists : relay' = [NoRelay EXCEPT !.lines = lines]
    /\ UNCHANGED <<clock, storage, last_cleanup, historyVars, env, peer, task, twin, admissions, exchange, starts, flight, metrics>>

NextHeaders ==
    \/ RelayHeaders
    \/ NextRequest

SpecHeaders == InitLimiter /\ [][NextHeaders]_vars

\* header lines as a set of name-value pairs
LinePairs(lines) == {lines[i] : i \in 1..Len(lines)}

\* a headers dict as a set of name-value pairs
DictPairs(headers) == {<<n, headers[n]>> : n \in DOMAIN headers}

(***************************************************************************)
(* C21: the headers handed to client.post are the inbound header lines     *)
(* without those of Host and Content-Length: every other inbound line is   *)
(* among them with its value, and nothing else is.                         *)
(***************************************************************************)
C21_HeadersRelayed ==
    relay.posted
    => DictPairs(relay.headers)
         = {l \in LinePairs(relay.lines) : l[1] \notin {"host", "content-length"}}

(***************************************************************************)
(* The request-id middleware.  Around it, outermost, is the server-error   *)
(* middleware of the framework: a response of the application goes out     *)
(* through the middleware's send wrapper, an exception of the application  *)
(* passes through the middleware and is answered outside it.               *)
(***************************************************************************)
\* the most requests the request-id specification follows
MaxIds == 4

\* the x-request-id values a caller sends (NoId: no such header)
SuppliedIds == {NoId, "caller-1", "caller-2"}

\* what the application answers: status and headers of http.response.start
AppResponses ==
    { [status |-> 202, headers |-> <<>>],
      [status |-> 400, headers |-> << <<"content-type", "application/json">> >>],
      [status |-> 204, headers |-> << <<"x-masked", "1">> >>] }

\* id_factory of configure: str(uuid.uuid4()), the n-th one issued
id_factory(supplied, n) == "uuid4-" \o ToString(n)

\* a request arrives
Arrive(supplied, raises) ==
    /\ exchange.pc = "idle"
    /\ exchange.issued < MaxIds
    /\ exchange' = [exchange EXCEPT !.pc = "request_id", !.supplied = supplied,
                                    !.raises = raises, !.request_id = NoId,
                                    !.status = 0, !.headers = <<>>]
    /\ UNCHANGED <<clock, storage, last_cleanup, historyVars, env, peer, task, twin, relay, admissions, starts, flight, metrics>>

\* RequestIdMiddleware.__call__ up to the call of the application
RequestIdEnter ==
    /\ exchange.pc = "request_id"
    /\ LET request_id == id_factory(exchange.supplied, exchange.issued + 1)
       IN  exchange' = [exchange EXCEPT !.pc = "app", !.request_id = request_id,
                                        !.request_id_ctx = request_id,
                                        !.issued = @ + 1]
    /\ UNCHANGED <<clock, storage, last_cleanup, historyVars, env, peer, task, twin, relay, admissions, starts, flight, metrics>>

\* send_with_request_id_header
send_with_request_id_header(request_id, headers) ==
    IF request_id # "" THEN Append(headers, <<"x-request-id", request_id>>) ELSE headers

\* the application sends http.response.start through the wrapper
AppResponds(r) ==
    /\ exchange.pc = "app"
    /\ ~exchange.raises
    /\ exchange' = [exchange EXCEPT
                       !.pc = "sent", !.status = r.status,
                       !.headers = send_with_request_id_header(exchange.request_id, r.headers)]
    /\ UNCHANGED <<clock, storage, last_cleanup, historyVars, env, peer, task, twin, relay, admissions, starts, flight, metrics>>

\* the application raises: the server-error middleware answers 500
AppRaises ==
    /\ exchange.pc = "app"
    /\ exchange.raises
    /\ exchange' = [exchange EXCEPT
                       !.pc = "sent", !.status = 500,
                       !.headers = << <<"content-type", "text/plain; charset=utf-8">> >>]
    /\ UNCHANGED <<clock, storage, last_cleanup, historyVars, env, peer, task, twin, relay, admissions, starts, flight, metrics>>

\* the exchange is over
Close ==
    /\ exchange.pc = "sent"
    /\ exchange' = [exchange EXCEPT !.pc = "idle"]
    /\ UNCHANGED <<clock, storage, last_cleanup, historyVars, env, peer, task, twin, relay, admissions, starts, flight, metrics>>

NextRequestId ==
    \/ \E supplied \in SuppliedIds, raises \in BOOLEAN : Arrive(supplied, raises)
    \/ RequestIdEnter
    \/ \E r \in AppResponses : AppResponds(r)
    \/ AppRaises
    \/ Close

SpecRequestId == InitLimiter /\ [][NextRequestId]_vars

\* the values of the response's x-request-id header lines
RequestIdsSent ==
    {exchange.headers[i][2] : i \in {j \in 1..Len(exchange.headers) :
                                          exchange.headers[j][1] = "x-request-id"}}

(***************************************************************************)
(* C22: every response carries one x-request-id header; its value is the   *)
(* one the caller sent in the request, when the caller sent one.           *)
(***************************************************************************)
C22_RequestIdEchoed ==
    exchange.pc = "sent"
    => /\ Cardinality(RequestIdsSent) = 1
       /\ exchange.supplied # NoId => RequestIdsSent = {exchange.supplied}

(***************************************************************************)
(* One request to POST /api/v1/traces, step by step.  A step runs from one *)
(* suspension point of the handling to the next.                           *)
(***************************************************************************)
\* the clock of the request specification stops here
MaxClock == 2

\* the request's place in its key's window, from the log before the call
Ordinal(k, r) == IF r.newWindow THEN 1 ELSE Len(winLog[k]) + 1

\* an exception reaches the server error middleware: 500, unmasked
Crash(tk, why) ==
    [tk EXCEPT !.pc = "done", !.sent = InternalServerError, !.uncaught = TRUE, !.outcome = why]

\* the handler or an error handler returns resp
Return(tk, resp, why) == [tk EXCEPT !.pc = "respond", !.resp = resp, !.outcome = why]

\* The request arrives and FastAPI solves the endpoint's dependencies:
\* get_otel_client raises BadRequest, which otel_proxy_error_handler renders,
\* or gives the receiver and the handler is entered.
Dispatch(t, r) ==
    /\ task[t].pc = "idle"
    /\ LET tk == [IdleTask EXCEPT !.req = r]
       IN  task' = [task EXCEPT ![t] =
              IF get_otel_client(r) = NoReceiver
              THEN Return(tk, otel_proxy_error_handler(UnexpectedDataType), "unexpected_data_type")
              ELSE [tk EXCEPT !.pc = "handler", !.receiver = get_otel_client(r)]]
    /\ UNCHANGED <<clock, storage, last_cleanup, historyVars, env, peer, twin, admissions, relay, exchange, starts, flight, metrics>>

\* traces: the Content-Length check, up to `await request.body()`
ContentLengthCheck(tk) ==
    LET r == tk.req
    IN  IF HasHeader(r, "content-length") /\ r.headers["content-length"] # <<>>
        THEN IF ~IsDecimal(r.headers["content-length"]) THEN Crash(tk, "ValueError")
             ELSE IF ToInt(r.headers["content-length"]) > MAX_BODY_SIZE
             THEN Return(tk, PayloadTooLarge, "content_length_too_large")
             ELSE [tk EXCEPT !.pc = "body"]
        ELSE [tk EXCEPT !.pc = "body"]

TracesUntilBodyForwardsDenied(tk, allowed) == ContentLengthCheck(tk)

\* traces, from the result of is_allowed to `await request.body()`
TracesUntilBody(tk, allowed) ==
    IF ~allowed THEN Return(tk, RateLimitedResponse(env), "rate_limited")
    ELSE ContentLengthCheck(tk)

Enter(t, skew) ==
    /\ task[t].pc = "handler"
    /\ LET k  == ClientIp(task[t].req)
           r  == IsAllowed(storage, last_cleanup, clock, k, skew)
           tk == [task[t] EXCEPT !.allowCalls = @ + 1, !.allowed = r.allowed,
                                 !.ordinal = Ordinal(k, r)]
       IN  /\ r.clock <= MaxClock
           /\ storage' = r.storage
           /\ last_cleanup' = r.last_cleanup
           /\ clock' = r.clock
           /\ WindowHistory(k, clock, r)
           /\ task' = [task EXCEPT ![t] = TracesUntilBody(tk, r.allowed)]
    /\ UNCHANGED <<lastCall, env, peer, twin, admissions, relay, exchange, starts, flight, metrics>>

PostWithRetry(tk, body, headers) ==
    [tk EXCEPT !.posts = @ + 2, !.postedTo = tk.receiver,
               !.forwarded = [body |-> body, headers |-> headers],
               !.postAfterSend = (tk.sent # NoWire)]

\* client.post(url, content=body, headers=headers) is issued
Post(tk, body, headers) ==
    [tk EXCEPT !.posts = @ + 1, !.postedTo = tk.receiver,
               !.forwarded = [body |-> body, headers |-> headers],
               !.postAfterSend = (tk.sent # NoWire)]

\* traces, from the body's arrival to the return or to forward_traces' post
TracesAfterBody(tk) ==
    LET r == tk.req
    IN  IF Len(r.body) > MAX_BODY_SIZE THEN Return(tk, PayloadTooLarge, "body_too_large")
        ELSE IF ~HasHeader(r, "content-type")
        THEN Return(tk, MissingContentType, "missing_content_type")
        ELSE IF UseBackground(env)
        THEN [Return(tk, Accepted, "accepted") EXCEPT !.background = TRUE]
        ELSE [Post(tk, r.body, ForwardHeaders(r)) EXCEPT !.pc = "upstream"]

BodyRead(t) ==
    /\ task[t].pc = "body"
    /\ task' = [task EXCEPT ![t] = TracesAfterBody([task[t] EXCEPT !.bodyRead = TRUE])]
    /\ UNCHANGED <<clock, storage, last_cleanup, historyVars, env, peer, twin, admissions, relay, exchange, starts, flight, metrics>>

\* forward_traces awaited by the handler: the upstream call ends
UpstreamReturn(t, o) ==
    /\ task[t].pc = "upstream"
    /\ LET tk == [task[t] EXCEPT !.reply = o, !.replyBeforeSend = TRUE,
                                 !.logged = ForwardLogsError(o)]
       IN  task' = [task EXCEPT ![t] =
              IF ForwardRaises(o) THEN Crash(tk, "forward_raised")
              ELSE Return(tk, ForwardResult(o), "forwarded")]
    /\ UNCHANGED <<clock, storage, last_cleanup, historyVars, env, peer, twin, admissions, relay, exchange, starts, flight, metrics>>

\* MaskedResponse.__call__: mask in production, send, then the background tasks
Respond(t) ==
    /\ task[t].pc = "respond"
    /\ task' = [task EXCEPT ![t] =
          [@ EXCEPT !.sent = Wire(Render(env, task[t].resp)),
                    !.pc = IF task[t].background THEN "background" ELSE "done"]]
    /\ UNCHANGED <<clock, storage, last_cleanup, historyVars, env, peer, twin, admissions, relay, exchange, starts, flight, metrics>>

\* the background task starts forward_traces, which issues the post
BackgroundPost(t) ==
    /\ task[t].pc = "background"
    /\ task' = [task EXCEPT ![t] =
          [Post(task[t], task[t].req.body, ForwardHeaders(task[t].req)) EXCEPT !.pc = "bg_upstream"]]
    /\ UNCHANGED <<clock, storage, last_cleanup, historyVars, env, peer, twin, admissions, relay, exchange, starts, flight, metrics>>

\* the background forward_traces ends; what it returns is dropped
BackgroundReturn(t, o) ==
    /\ task[t].pc = "bg_upstream"
    /\ task' = [task EXCEPT ![t] =
          [@ EXCEPT !.reply = o, !.bgRaised = ForwardRaises(o),
                    !.logged = ForwardLogsError(o), !.pc = "done"]]
    /\ UNCHANGED <<clock, storage, last_cleanup, historyVars, env, peer, twin, admissions, relay, exchange, starts, flight, metrics>>

\* the task is free for the next request
Finish(t) ==
    /\ task[t].pc = "done"
    /\ task' = [task EXCEPT ![t] = IdleTask]
    /\ UNCHANGED <<clock, storage, last_cleanup, historyVars, env, peer, twin, admissions, relay, exchange, starts, flight, metrics>>

Tick ==
    /\ clock < MaxClock
    /\ clock' = clock + 1
    /\ UNCHANGED <<storage, last_cleanup, historyVars, env, peer, task, twin, admissions, relay, exchange, starts, flight, metrics>>

Init ==
    /\ clock = 0
    /\ storage = [k \in {} |-> RateLimitItem(0)]
    /\ last_cleanup = 0
    /\ winLog = [k \in LimiterKeys \cup {"unknown"} |-> <<>>]
    /\ winFirst = [k \in LimiterKeys \cup {"unknown"} |-> 0]
    /\ earlyReset = FALSE
    /\ lastCall = NoCall
    /\ env \in Environments
    /\ peer \in Clients
    /\ task = [t \in Tasks |-> IdleTask]
    /\ twin = NoTwin
    /\ admissions = NoAdmissions
    /\ relay = NoRelay
    /\ metrics = NoMetrics
    /\ flight = [f \in Flights |-> NoFlight]
    /\ starts = NoStarts
    /\ exchange = NoExchange

Next ==
    \/ \E t \in Tasks, r \in RequestsOf(peer) : Dispatch(t, r)
    \/ \E t \in Tasks, skew \in Skews : Enter(t, skew)
    \/ \E t \in Tasks : BodyRead(t)
    \/ \E t \in Tasks, o \in UpstreamReplies : UpstreamReturn(t, o)
    \/ \E t \in Tasks : Respond(t)
    \/ \E t \in Tasks : BackgroundPost(t)
    \/ \E t \in Tasks, o \in UpstreamReplies : BackgroundReturn(t, o)
    \/ \E t \in Tasks : Finish(t)
    \/ Tick

Spec == Init /\ [][Next]_vars

(***************************************************************************)
(* What the claims speak of.                                               *)
(***************************************************************************)
\* a response went out for the task's request
Sent(t) == task[t].sent # NoWire

\* the response came from the handler or an error handler, through MaskedResponse
Rendered(t) == Sent(t) /\ ~task[t].uncaught

NonProduction == env \in {"TESTING", "DEVELOPMENT", "STAGING"}

ContentLengthTooLarge(r) ==
    /\ HasHeader(r, "content-length")
    /\ IsDecimal(r.headers["content-length"])
    /\ ToInt(r.headers["content-length"]) > MAX_BODY_SIZE

ContentLengthMalformed(r) ==
    /\ HasHeader(r, "content-length")
    /\ r.headers["content-length"] # <<>>
    /\ ~IsDecimal(r.headers["content-length"])

SelectorValid(r) ==
    HasHeader(r, "x-data-type") /\ r.headers["x-data-type"] \in {"opentelemetry-sdk", "faro"}

\* the request passes the size, Content-Type and selector checks
OtherwiseValid(r) ==
    /\ ~ContentLengthTooLarge(r)
    /\ ~ContentLengthMalformed(r)
    /\ Len(r.body) <= MAX_BODY_SIZE
    /\ HasHeader(r, "content-type")
    /\ SelectorValid(r)

\* the marker header of a masked response
Marked(w) == "x-m-r" \in DOMAIN w.headers /\ w.headers["x-m-r"] = "1"

(***************************************************************************)
(* C3: in PRODUCTION every response rendered for POST /api/v1/traces       *)
(* (accepted, rate-limited, payload too large, missing Content-Type,       *)
(* unexpected data type, and whatever the upstream does afterwards) has    *)
(* status 204, an empty body and the header x-m-r: 1.                      *)
(***************************************************************************)
C3_ProductionMasked ==
    \A t \in Tasks :
        (env = "PRODUCTION" /\ Rendered(t))
        => /\ task[t].sent.status = 204
           /\ task[t].sent.body = ""
           /\ Marked(task[t].sent)

C3_Witness ==
    \E t \in Tasks :
        /\ env = "PRODUCTION"
        /\ task[t].pc = "done"
        /\ task[t].outcome = "body_too_large"
        /\ task[t].resp.status_code = 413
        /\ task[t].sent.status = 204
        /\ task[t].sent.body = ""
        /\ Marked(task[t].sent)

\* the whole response of a rate-limit rejection in PRODUCTION
RateLimitRejectionInProduction ==
    [status |-> 204, body |-> "", headers |-> [n \in {"x-m-r"} |-> "1"]]

(***************************************************************************)
(* C4: in PRODUCTION the whole response (status, body and all headers set  *)
(* by the application) of every outcome is the one of a rate-limit         *)
(* rejection, whether MaskedResponse or SecureJSONResponse produced it.    *)
(***************************************************************************)
C4_ProductionResponsesIdentical ==
    \A t \in Tasks :
        (env = "PRODUCTION" /\ Rendered(t))
        => task[t].sent = RateLimitRejectionInProduction

(***************************************************************************)
(* C5: in TESTING, DEVELOPMENT and STAGING the response sent has the       *)
(* status code, the body and the headers (content type) of the response    *)
(* the handler returned, and no marker header.                             *)
(***************************************************************************)
C5_NonProductionPassThrough ==
    \A t \in Tasks :
        (NonProduction /\ Rendered(t))
        => /\ task[t].sent.status = task[t].resp.status_code
           /\ task[t].sent.body = task[t].resp.body
           /\ task[t].sent.headers = task[t].resp.raw_headers
           /\ "x-m-r" \notin DOMAIN task[t].sent.headers

C5_Witness ==
    \E t \in Tasks :
        /\ env = "STAGING"
        /\ task[t].pc = "done"
        /\ task[t].outcome = "content_length_too_large"
        /\ task[t].sent.status = 413
        /\ task[t].sent.body = "Payload too large"

(***************************************************************************)
(* C6: the handling of a request never ends in an uncaught exception;      *)
(* every request ends in a response that went through the masking step.    *)
(***************************************************************************)
C6_NoUncaughtException ==
    \A t \in Tasks :
        task[t].pc = "done"
        => /\ ~task[t].uncaught
           /\ task[t].resp # NoResponse
           /\ task[t].sent = Wire(Render(env, task[t].resp))

(***************************************************************************)
(* C7: is_allowed is called exactly once for every request that is         *)
(* answered, and before any upstream request for it.                       *)
(***************************************************************************)
C7_LimiterCalledOncePerRequest ==
    \A t \in Tasks :
        /\ Sent(t) => task[t].allowCalls = 1
        /\ task[t].posts > 0 => task[t].allowCalls = 1

\* whether the limiter admits the request is known: it was asked, or the key
\* has no entry (a new key is admitted)
AdmissionKnown(t) ==
    task[t].allowCalls = 1 \/ ClientIp(task[t].req) \notin DOMAIN storage

Admitted(t) == IF task[t].allowCalls = 1 THEN task[t].allowed ELSE TRUE

EarliestFailure(r, admitted) ==
    IF ~admitted THEN {"rate_limited"}
    ELSE IF ContentLengthTooLarge(r) THEN {"content_length_too_large"}
    ELSE IF Len(r.body) > MAX_BODY_SIZE THEN {"body_too_large"}
    ELSE IF ~HasHeader(r, "content-type") THEN {"missing_content_type"}
    ELSE IF ~SelectorValid(r) THEN {"unexpected_data_type"}
    ELSE {"accepted", "forwarded"}

(***************************************************************************)
(* C8: the outcome of a request is the one of the earliest failing step in *)
(* the order rate limit, Content-Length, body length, Content-Type,        *)
(* data-type selector.  Whether the limiter admits the request is known    *)
(* when it was asked, and when the key has no entry (a new key is          *)
(* admitted).                                                              *)
(***************************************************************************)
C8_EarliestFailingStepWins ==
    \A t \in Tasks :
        (Rendered(t) /\ AdmissionKnown(t))
        => task[t].outcome \in EarliestFailure(task[t].req, Admitted(t))

(***************************************************************************)
(* C9: a request is_allowed denies is never posted to an upstream, and     *)
(* outside production it is answered 429 "Too Many Requests"; a request    *)
(* that is at most the requests_limit-th of its key's window is admitted   *)
(* and, when otherwise valid, posted once; the one after is denied.        *)
(***************************************************************************)
C9_DeniedNeverForwarded ==
    \A t \in Tasks :
        task[t].allowCalls = 1
        => /\ task[t].ordinal <= requests_limit => task[t].allowed
           /\ task[t].ordinal = requests_limit + 1 => ~task[t].allowed
           /\ ~task[t].allowed
              => /\ task[t].posts = 0
                 /\ task[t].pc \in {"respond", "done"}
                 /\ (Sent(t) /\ env # "PRODUCTION")
                    => /\ task[t].sent.status = 429
                       /\ task[t].sent.body = "Too Many Requests"
           /\ (task[t].allowed /\ OtherwiseValid(task[t].req) /\ task[t].pc = "done")
              => task[t].posts = 1

C9_Witness ==
    \E t \in Tasks :
        /\ env = "DEVELOPMENT"
        /\ task[t].pc = "done"
        /\ OtherwiseValid(task[t].req)
        /\ task[t].ordinal = requests_limit + 1
        /\ ~task[t].allowed
        /\ task[t].posts = 0
        /\ task[t].sent.status = 429

(***************************************************************************)
(* C10: in PRODUCTION the upstream request is issued only after the        *)
(* response was sent; in the other environments it is issued and has ended *)
(* before the response is sent, and what forward_traces returns for it is  *)
(* the response.                                                           *)
(***************************************************************************)
C10_DispatchMode ==
    \A t \in Tasks :
        /\ (env = "PRODUCTION" /\ task[t].posts > 0)
           => /\ task[t].postAfterSend
              /\ ~task[t].replyBeforeSend
        /\ (env # "PRODUCTION" /\ task[t].posts > 0)
           => /\ ~task[t].postAfterSend
              /\ Sent(t) => /\ task[t].replyBeforeSend
                            /\ task[t].reply # NoReply
              /\ (Rendered(t) /\ task[t].reply.kind = "response")
                 => /\ task[t].sent.status = task[t].reply.status
                    /\ task[t].sent.body = task[t].reply.content
              /\ (Rendered(t) /\ task[t].reply.kind = "RequestError")
                 => /\ task[t].sent.status = 502
                    /\ task[t].sent.body = "Failed to forward traces"
        /\ (env # "PRODUCTION" /\ Rendered(t) /\ task[t].outcome = "forwarded")
           => task[t].posts = 1
        /\ (env = "PRODUCTION" /\ task[t].outcome = "accepted" /\ task[t].pc = "done")
           => task[t].posts = 1

C10_Witness ==
    \E t \in Tasks :
        /\ env = "PRODUCTION"
        /\ task[t].pc = "bg_upstream"
        /\ task[t].posts = 1
        /\ task[t].postAfterSend
        /\ task[t].sent.status = 204
        /\ task[t].reply = NoReply

(***************************************************************************)
(* C11: in PRODUCTION the response to an accepted request is on the wire   *)
(* before the deferred post is issued, so it is sent though the upstream   *)
(* never answers; it is the same 204 whether the deferred forward is still *)
(* pending, has succeeded or has failed; and a transport failure of the    *)
(* deferred forward is logged and does not leave the background task.      *)
(***************************************************************************)
C11_DeferredForwardUnobservable ==
    \A t \in Tasks :
        (env = "PRODUCTION" /\ task[t].outcome = "accepted")
        => /\ task[t].posts > 0 => Sent(t)
           /\ Sent(t) => task[t].sent = Wire(Masked(Accepted))
           /\ task[t].reply.kind = "RequestError"
              => /\ task[t].logged
                 /\ ~task[t].bgRaised
                 /\ ~task[t].uncaught

C11_Witness ==
    \E t \in Tasks :
        /\ env = "PRODUCTION"
        /\ task[t].outcome = "accepted"
        /\ task[t].pc = "done"
        /\ task[t].posts = 1
        /\ task[t].reply.kind = "RequestError"
        /\ task[t].logged
        /\ ~task[t].bgRaised
        /\ task[t].sent.status = 204

\* the body of the error response for an unexpected data type
UnexpectedDataTypeBody ==
    "{\"error\":\"Unexpected data type\",\"code\":\"UNEXPECTED_DATA_TYPE\",\"detail\":null}"

\* the upstream a valid selector names
UpstreamOf(r) ==
    IF r.headers["x-data-type"] = "opentelemetry-sdk" THEN "otel_collector" ELSE "otel_collector_faro"

TooLarge(r) == ContentLengthTooLarge(r) \/ Len(r.body) > MAX_BODY_SIZE

(***************************************************************************)
(* C13: outside production a request the limiter admits (or would admit,   *)
(* its key having no entry) whose Content-Length or body exceeds           *)
(* MAX_BODY_SIZE is answered 413 "Payload too large" and is not posted;    *)
(* when the Content-Length exceeds the maximum the body is not read, and   *)
(* otherwise the rejection follows the reading of the body; an admitted,   *)
(* otherwise valid request with a body of exactly MAX_BODY_SIZE bytes is   *)
(* posted.                                                                 *)
(***************************************************************************)
C13_OversizeRejected ==
    \A t \in Tasks :
        (NonProduction /\ AdmissionKnown(t) /\ Admitted(t))
        => /\ (TooLarge(task[t].req) /\ task[t].pc # "idle")
              => task[t].posts = 0
           /\ (TooLarge(task[t].req) /\ Sent(t))
              => /\ task[t].sent.status = 413
                 /\ task[t].sent.body = "Payload too large"
                 /\ task[t].bodyRead = ~ContentLengthTooLarge(task[t].req)
           /\ (OtherwiseValid(task[t].req) /\ Len(task[t].req.body) = MAX_BODY_SIZE
                 /\ task[t].pc = "done")
              => task[t].posts = 1

(***************************************************************************)
(* C14: a request without a Content-Type header that the limiter admits    *)
(* (or would admit, its key having no entry) and that is within the size   *)
(* limit is answered 400 "Missing Content-Type header" outside production  *)
(* and 204, empty and marked in production, and is never posted.           *)
(***************************************************************************)
C14_MissingContentTypeRejected ==
    \A t \in Tasks :
        (task[t].pc # "idle" /\ ~HasHeader(task[t].req, "content-type")
            /\ AdmissionKnown(t) /\ Admitted(t) /\ ~TooLarge(task[t].req))
        => /\ task[t].posts = 0
           /\ (Sent(t) /\ env # "PRODUCTION")
              => /\ task[t].sent.status = 400
                 /\ task[t].sent.body = "Missing Content-Type header"
           /\ (Sent(t) /\ env = "PRODUCTION")
              => /\ task[t].sent.status = 204
                 /\ task[t].sent.body = ""
                 /\ Marked(task[t].sent)

\* the content type a response on the wire declares (NoMediaType: none)
ContentTypeSent(w) ==
    IF "content-type" \in DOMAIN w.headers THEN w.headers["content-type"] ELSE NoMediaType

(***************************************************************************)
(* C15: outside production, when the upstream answered, the response sent  *)
(* has the upstream's status code, the upstream's body and the upstream's  *)
(* content type, for 2xx and non-2xx statuses alike.                       *)
(***************************************************************************)
C15_UpstreamMirrored ==
    \A t \in Tasks :
        (NonProduction /\ Sent(t) /\ task[t].reply.kind = "response")
        => /\ task[t].sent.status = task[t].reply.status
           /\ task[t].sent.body = task[t].reply.content
           /\ ContentTypeSent(task[t].sent) = task[t].reply.content_type

(***************************************************************************)
(* C16: when the post to the upstream ended in a transport error, exactly  *)
(* one post was made for the request, and the answer is 502 outside        *)
(* production and 204, empty and marked in production.                     *)
(***************************************************************************)
C16_UnreachableIsBadGatewayOnce ==
    \A t \in Tasks :
        task[t].reply.kind = "RequestError"
        => /\ task[t].posts = 1
           /\ ~task[t].uncaught
           /\ env # "PRODUCTION"
              => /\ task[t].resp.status_code = 502
                 /\ Sent(t) => /\ task[t].sent.status = 502
                               /\ task[t].sent.body = "Failed to forward traces"
           /\ env = "PRODUCTION"
              => /\ task[t].sent.status = 204
                 /\ task[t].sent.body = ""
                 /\ Marked(task[t].sent)

C16_Witness ==
    \E t \in Tasks :
        /\ env = "TESTING"
        /\ task[t].pc = "done"
        /\ task[t].reply.kind = "RequestError"
        /\ task[t].posts = 1
        /\ task[t].sent.status = 502
        /\ task[t].sent.body = "Failed to forward traces"

\* the request ended with a domain error raised: the selector's BadRequest
DomainErrorRaised(t) == task[t].outcome = "unexpected_data_type"

(***************************************************************************)
(* C23: a domain error raised while a request is handled is rendered by    *)
(* otel_proxy_error_handler as the JSON object of its error, code and      *)
(* detail with the error's status code; the response sent is that          *)
(* rendering outside production and, in production, 204 with an empty body *)
(* and the header x-m-r: 1.                                                *)
(***************************************************************************)
C23_DomainErrorRenderedAndMasked ==
    \A t \in Tasks :
        DomainErrorRaised(t)
        => /\ ~task[t].uncaught
           /\ task[t].resp.cls = "SecureJSONResponse"
           /\ task[t].resp.status_code = UnexpectedDataType.status_code
           /\ task[t].resp.body = UnexpectedDataTypeBody
           /\ (Sent(t) /\ env # "PRODUCTION")
              => /\ task[t].sent.status = UnexpectedDataType.status_code
                 /\ task[t].sent.body = UnexpectedDataTypeBody
                 /\ ~Marked(task[t].sent)
           /\ (Sent(t) /\ env = "PRODUCTION")
              => /\ task[t].sent.status = 204
                 /\ task[t].sent.body = ""
                 /\ Marked(task[t].sent)

C23_Witness ==
    \E t \in Tasks :
        /\ env = "PRODUCTION"
        /\ task[t].pc = "done"
        /\ DomainErrorRaised(t)
        /\ HasHeader(task[t].req, "x-data-type")
        /\ task[t].req.headers["x-data-type"] = "abc"
        /\ task[t].resp.status_code = 400
        /\ task[t].sent.status = 204
        /\ Marked(task[t].sent)

\* the call was made at least a cleanup period after the last sweep
SweepRan(call) == call.now - call.last_cleanup >= 10 * window_seconds

(***************************************************************************)
(* C28: a call that is denied leaves the entry of its key as it was, count *)
(* and window_start; when no sweep ran in the call it leaves the whole     *)
(* storage and the time of the last sweep as they were.                    *)
(***************************************************************************)
C28_DeniedCallChangesNothing ==
    (lastCall # NoCall /\ ~lastCall.allowed)
    => /\ lastCall.key \in DOMAIN lastCall.storage
       /\ lastCall.now - lastCall.storage[lastCall.key].start_time <= window_seconds
       /\ storage[lastCall.key] = lastCall.storage[lastCall.key]
       /\ ~SweepRan(lastCall)
          => /\ storage = lastCall.storage
             /\ last_cleanup = lastCall.last_cleanup

C28_Witness ==
    /\ lastCall # NoCall
    /\ ~lastCall.allowed
    /\ ~SweepRan(lastCall)
    /\ storage[lastCall.key] = [count |-> requests_limit, start_time |-> lastCall.now - window_seconds]
    /\ \E j \in DOMAIN storage :
           /\ j # lastCall.key
           /\ storage[j].start_time < lastCall.now - 2 * window_seconds

(***************************************************************************)
(* C30: every stored entry has a window_start not older than               *)
(* 2 x window_seconds before the last sweep; right after a call in which   *)
(* the sweep ran at the clock reading now, _last_cleanup is now, no entry  *)
(* older than now - 2 x window_seconds is stored, and an entry that was    *)
(* already that old before the call was not carried over: a stale entry    *)
(* does not outlast the first sweep after it went stale.                   *)
(***************************************************************************)
C30_NoEntryOlderThanSweepCutoff ==
    /\ \A k \in DOMAIN storage :
           storage[k].start_time >= last_cleanup - 2 * window_seconds
    /\ (lastCall # NoCall /\ SweepRan(lastCall))
       => /\ last_cleanup = lastCall.now
          /\ \A k \in DOMAIN storage :
                 storage[k].start_time >= lastCall.now - 2 * window_seconds
          /\ \A j \in DOMAIN lastCall.storage :
                 lastCall.storage[j].start_time < lastCall.now - 2 * window_seconds
                 => (j \in DOMAIN storage => j = lastCall.key)

C30_Witness ==
    /\ lastCall # NoCall
    /\ SweepRan(lastCall)
    /\ \E j \in DOMAIN lastCall.storage :
           /\ j # lastCall.key
           /\ lastCall.storage[j].start_time = lastCall.now - 2 * window_seconds - 1
           /\ j \notin DOMAIN storage
    /\ lastCall.key \in DOMAIN lastCall.storage
    /\ lastCall.storage[lastCall.key].start_time = lastCall.now - 2 * window_seconds

\* the limiter admitted the request and the request passes the size,
\* Content-Type and selector checks
PassesEveryCheck(t) ==
    /\ task[t].allowCalls = 1
    /\ task[t].allowed
    /\ OtherwiseValid(task[t].req)

MaxFlightClock == 2

\* the request arrives and its task is started: traces up to client_ip
Receive(f, k) ==
    /\ flight[f].pc = "idle"
    /\ flight' = [flight EXCEPT ![f] = [pc |-> "handler", key |-> k]]
    /\ UNCHANGED <<clock, storage, last_cleanup, historyVars, env, peer, task, twin, admissions, relay, exchange, starts, metrics>>

\* traces from is_allowed to the first await, request.body(), or to the
\* return of the rate-limit rejection
Admit(f, skew) ==
    /\ flight[f].pc = "handler"
    /\ LET k == flight[f].key
           r == IsAllowed(storage, last_cleanup, clock, k, skew)
       IN  /\ r.clock <= MaxFlightClock
           /\ storage' = r.storage
           /\ last_cleanup' = r.last_cleanup
           /\ clock' = r.clock
           /\ WindowHistory(k, clock, r)
           /\ flight' = [flight EXCEPT ![f] = IF r.allowed THEN [@ EXCEPT !.pc = "body"]
                                              ELSE [NoFlight EXCEPT !.pc = "respond"]]
    /\ UNCHANGED <<lastCall, env, peer, task, twin, admissions, relay, exchange, starts, metrics>>

\* request.body() returns: traces up to the await of client.post
BodyArrives(f) ==
    /\ flight[f].pc = "body"
    /\ flight' = [flight EXCEPT ![f].pc = "upstream"]
    /\ UNCHANGED <<clock, storage, last_cleanup, historyVars, env, peer, task, twin, admissions, relay, exchange, starts, metrics>>

\* client.post returns: forward_traces and traces return the response
UpstreamAnswers(f) ==
    /\ flight[f].pc = "upstream"
    /\ flight' = [flight EXCEPT ![f] = [NoFlight EXCEPT !.pc = "respond"]]
    /\ UNCHANGED <<clock, storage, last_cleanup, historyVars, env, peer, task, twin, admissions, relay, exchange, starts, metrics>>

\* the response is sent and the request is over
Leave(f) ==
    /\ flight[f].pc = "respond"
    /\ flight' = [flight EXCEPT ![f] = NoFlight]
    /\ UNCHANGED <<clock, storage, last_cleanup, historyVars, env, peer, task, twin, admissions, relay, exchange, starts, metrics>>

TickFlight ==
    /\ clock < MaxFlightClock
    /\ clock' = clock + 1
    /\ UNCHANGED <<storage, last_cleanup, historyVars, env, peer, task, twin, admissions, relay, exchange, starts, flight, metrics>>

NextFlights ==
    \/ \E f \in Flights, k \in LimiterKeys : Receive(f, k)
    \/ \E f \in Flights, skew \in Skews : Admit(f, skew)
    \/ \E f \in Flights : BodyArrives(f)
    \/ \E f \in Flights : UpstreamAnswers(f)
    \/ \E f \in Flights : Leave(f)
    \/ TickFlight

SpecFlights == InitLimiter /\ [][NextFlights]_vars

\* the calls admitted in the key's current window
AdmittedInWindow(k) == Cardinality({i \in 1..Len(winLog[k]) : winLog[k][i]})

(***************************************************************************)
(* C26: with several requests in flight, interleaved at their awaits in    *)
(* every possible way, the calls admitted for a key in its current window  *)
(* are at most requests_limit, and the count of the key's entry is their   *)
(* number: no increment is lost.                                           *)
(***************************************************************************)
C26_NoLostUpdateInFlight ==
    \A k \in LimiterKeys :
        /\ AdmittedInWindow(k) <= requests_limit
        /\ k \in DOMAIN storage => storage[k].count = AdmittedInWindow(k)
        /\ k \notin DOMAIN storage => winLog[k] = <<>>

C26_Witness ==
    \E k \in LimiterKeys :
        /\ flight["r1"] = [pc |-> "upstream", key |-> k]
        /\ flight["r2"] = [pc |-> "body", key |-> k]
        /\ flight["r3"].pc = "respond"
        /\ winLog[k] = <<TRUE, TRUE, FALSE>>
        /\ storage[k].count = requests_limit

\* the count the key's entry has for the call made now: 0 when the call
\* finds no entry or finds its window expired
CountInWindow(k) ==
    IF k \in DOMAIN storage /\ clock - storage[k].start_time <= window_seconds
    THEN storage[k].count
    ELSE 0

\* the step is the request's call of is_allowed, and the call admits it
AdmittedNow(t) ==
    /\ task[t].allowCalls = 0
    /\ task'[t].allowCalls = 1
    /\ task'[t].allowed

\* the request of the step was rejected by the data-type selector
SelectorRejected(t) ==
    \/ task[t].outcome = "unexpected_data_type"
    \/ task'[t].outcome = "unexpected_data_type"

is_testing(e) == e = "TESTING"

\* the responses traces and the error handler return
HandlerResponses(e) ==
    { Accepted, PayloadTooLarge, MissingContentType, RateLimitedResponse(e),
      otel_proxy_error_handler(UnexpectedDataType) }
    \cup { ForwardResult(o) : o \in {u \in UpstreamReplies : ~ForwardRaises(u)} }

\* str(message["status"])
StatusLabel(status) == ToString(status)

\* PrometheusMiddleware.__call__ up to the call of the application
MetricsEnter(c) ==
    /\ metrics.call[c].pc = "idle"
    /\ metrics' = [metrics EXCEPT
                      !.in_progress = @ + 1,
                      !.call[c] = [NoCallOfApp EXCEPT !.pc = "app", !.status_code = "418"]]
    /\ UNCHANGED <<clock, storage, last_cleanup, historyVars, env, peer, task, twin, admissions, relay, exchange, starts, flight>>

\* send_wrapper: the application sends http.response.start
MetricsResponseStart(c, r) ==
    /\ metrics.call[c].pc = "app"
    /\ LET status == Wire(Render(env, r)).status
       IN  metrics' = [metrics EXCEPT
                         !.call[c] = [@ EXCEPT !.pc = "started",
                                               !.status_code = StatusLabel(status),
                                               !.sent = StatusLabel(status),
                                               !.background = (UseBackground(env) /\ r = Accepted)]]
    /\ UNCHANGED <<clock, storage, last_cleanup, historyVars, env, peer, task, twin, admissions, relay, exchange, starts, flight>>

\* the finally block: RESPONSES and REQUESTS_IN_PROGRESS
MetricsFinally(m, c, status_code) ==
    [m EXCEPT !.in_progress = @ - 1,
              !.call[c] = [@ EXCEPT !.pc = "over", !.status_code = status_code,
                                    !.responses = @ + 1, !.label = status_code]]

\* the application returns: else and finally
MetricsReturn(c) ==
    /\ metrics.call[c].pc = "started"
    /\ metrics' = MetricsFinally(metrics, c, metrics.call[c].status_code)
    /\ UNCHANGED <<clock, storage, last_cleanup, historyVars, env, peer, task, twin, admissions, relay, exchange, starts, flight>>

\* the application raises before it sent a response: except and finally; the
\* server error middleware, outside, sends 500
MetricsRaiseBeforeResponse(c) ==
    /\ metrics.call[c].pc = "app"
    /\ metrics' = [MetricsFinally(metrics, c, "500") EXCEPT
                      !.call[c].sent = StatusLabel(InternalServerError.status)]
    /\ UNCHANGED <<clock, storage, last_cleanup, historyVars, env, peer, task, twin, admissions, relay, exchange, starts, flight>>

\* the background forward raises after the response was sent: except and
\* finally; nothing more is sent
MetricsRaiseAfterResponse(c) ==
    /\ metrics.call[c].pc = "started"
    /\ metrics.call[c].background
    /\ metrics' = MetricsFinally(metrics, c, "500")
    /\ UNCHANGED <<clock, storage, last_cleanup, historyVars, env, peer, task, twin, admissions, relay, exchange, starts, flight>>

\* the request is over
MetricsLeave(c) ==
    /\ metrics.call[c].pc = "over"
    /\ metrics' = [metrics EXCEPT !.call[c] = NoCallOfApp]
    /\ UNCHANGED <<clock, storage, last_cleanup, historyVars, env, peer, task, twin, admissions, relay, exchange, starts, flight>>

InitMetrics == Init /\ ~is_testing(env)

NextMetrics ==
    \/ \E c \in Calls : MetricsEnter(c)
    \/ \E c \in Calls, r \in HandlerResponses(env) : MetricsResponseStart(c, r)
    \/ \E c \in Calls : MetricsReturn(c)
    \/ \E c \in Calls : MetricsRaiseBeforeResponse(c)
    \/ \E c \in Calls : MetricsRaiseAfterResponse(c)
    \/ \E c \in Calls : MetricsLeave(c)

SpecMetrics == InitMetrics /\ [][NextMetrics]_vars

\* the requests inside the application
InFlight == {c \in Calls : metrics.call[c].pc \in {"app", "started"}}

(***************************************************************************)
(* C32: the in-progress gauge is the number of requests inside the         *)
(* application and never negative; a request that is over was counted in   *)
(* the response counter exactly once, under the status code that was sent  *)
(* to its caller.                                                          *)
(***************************************************************************)
C32_GaugeAndResponseCounter ==
    /\ metrics.in_progress = Cardinality(InFlight)
    /\ metrics.in_progress >= 0
    /\ \A c \in Calls :
           /\ metrics.call[c].pc \in {"app", "started"} => metrics.call[c].responses = 0
           /\ metrics.call[c].pc = "over"
              => /\ metrics.call[c].responses = 1
                 /\ metrics.call[c].label = metrics.call[c].sent

(***************************************************************************)
(* main.py: GET /, beside the requests to POST /api/v1/traces.             *)
(***************************************************************************)
\* JSONResponse(content, status_code): the response class FastAPI gives the
\* value an endpoint returns
JSONResponse(content, status_code) ==
    [cls         |-> "JSONResponse",
     status_code |-> status_code,
     body        |-> JsonRender(content),
     media_type  |-> "application/json",
     raw_headers |-> InitHeaders(NoHeaders, "application/json")]

HomeResponseMasked ==
    Render(env, MaskedResponse(JsonRender([msg |-> "ok"]), 200, "application/json"))

\* home(): return {"msg": "ok"}
HomeResponse == JSONResponse([msg |-> "ok"], 200)

\* GET / is received, home runs and its response is sent
Home(t) ==
    /\ task[t].pc = "idle"
    /\ task' = [task EXCEPT ![t] =
          [IdleTask EXCEPT !.pc = "done", !.outcome = "home",
                           !.resp = HomeResponse, !.sent = Wire(HomeResponse)]]
    /\ UNCHANGED <<clock, storage, last_cleanup, historyVars, env, peer, twin, admissions, relay, exchange, starts, flight, metrics>>

NextHome ==
    \/ Next
    \/ \E t \in Tasks : Home(t)

SpecHome == Init /\ [][NextHome]_vars

\* the step is GET /, answered
HomeAnswered(t) == task[t].pc = "idle" /\ task'[t].outcome = "home"

(***************************************************************************)
(* C33: in every environment, PRODUCTION included, GET / is answered 200   *)
(* with the body {"msg":"ok"} as JSON and without the marker header; the   *)
(* step makes no call of is_allowed, leaves the limiter as it was and      *)
(* posts to no upstream.                                                   *)
(***************************************************************************)
C33_HomeOkAndApart ==
    [][\A t \in Tasks :
          HomeAnswered(t)
          => /\ task'[t].sent.status = 200
             /\ task'[t].sent.body = "{\"msg\":\"ok\"}"
             /\ ContentTypeSent(task'[t].sent) = "application/json"
             /\ ~Marked(task'[t].sent)
             /\ task'[t].allowCalls = 0
             /\ task'[t].posts = 0
             /\ storage' = storage
             /\ last_cleanup' = last_cleanup]_vars

C33_Witness ==
    \E t \in Tasks :
        /\ env = "PRODUCTION"
        /\ task[t].outcome = "home"
        /\ task[t].sent.status = 200
        /\ task[t].sent.body = "{\"msg\":\"ok\"}"
        /\ peer \in DOMAIN storage
        /\ storage[peer].count = requests_limit

====
